---------------------------- MODULE Spec2Model ----------------------------
(***************************************************************************)
(* Global Radar FastAPI backend (src/backend_main.py).                     *)
(*                                                                         *)
(* Python str values are sequences of one-character strings, so that       *)
(* parsing (float), formatting (str, f-strings) and concatenation are      *)
(* computed character by character.  An Optional[str] that is None is the  *)
(* one-element sequence None, whose element is not a character.            *)
(***************************************************************************)
EXTENDS Integers, Sequences, FiniteSets

(***************************************************************************)
(* Bounds of the model.                                                    *)
(***************************************************************************)
MaxPriceLen == 3
TicksPerSecond == 2
MaxTicks == 3

(***************************************************************************)
(* Python values.                                                          *)
(***************************************************************************)
None == <<"<None>">>

Digits == {"0", "1", "2", "3", "4", "5", "6", "7", "8", "9"}

DigitChars == <<"0", "1", "2", "3", "4", "5", "6", "7", "8", "9">>

DigitVal(c) == (CHOOSE i \in 1..10 : DigitChars[i] = c) - 1

Whitespace == {" ", "\t", "\n", "\r"}

\* str.lower() on the letters float() looks at.
Lower(c) ==
  CASE c = "I" -> "i"
    [] c = "N" -> "n"
    [] c = "F" -> "f"
    [] c = "A" -> "a"
    [] c = "T" -> "t"
    [] c = "Y" -> "y"
    [] c = "E" -> "e"
    [] OTHER -> c

LowerStr(s) == [i \in 1..Len(s) |-> Lower(s[i])]

RECURSIVE LStrip(_)
LStrip(s) == IF s # <<>> /\ Head(s) \in Whitespace THEN LStrip(Tail(s)) ELSE s

RECURSIVE RStrip(_)
RStrip(s) ==
  IF s # <<>> /\ s[Len(s)] \in Whitespace THEN RStrip(SubSeq(s, 1, Len(s) - 1)) ELSE s

Strip(s) == RStrip(LStrip(s))

\* Index of the first element of s that is in set cs, 0 when there is none.
IndexOf(s, cs) ==
  IF \E i \in 1..Len(s) : s[i] \in cs
  THEN CHOOSE i \in 1..Len(s) : s[i] \in cs /\ \A j \in 1..(i - 1) : s[j] \notin cs
  ELSE 0

(***************************************************************************)
(* float(): the values it produces and the strings it accepts.             *)
(* A finite value is (-1)^neg * mant * 10^exp, kept exact.                 *)
(***************************************************************************)
ValueError == [kind |-> "ValueError", neg |-> FALSE, mant |-> 0, exp |-> 0]

NaN == [kind |-> "nan", neg |-> FALSE, mant |-> 0, exp |-> 0]

Inf(neg) == [kind |-> "inf", neg |-> neg, mant |-> 0, exp |-> 0]

Finite(neg, mant, exp) == [kind |-> "finite", neg |-> neg, mant |-> mant, exp |-> exp]

\* digitpart ::= digit (["_"] digit)*
IsDigitPart(s) ==
  /\ s # <<>>
  /\ \A i \in 1..Len(s) : s[i] \in Digits \cup {"_"}
  /\ s[1] \in Digits
  /\ s[Len(s)] \in Digits
  /\ \A i \in 1..(Len(s) - 1) : ~(s[i] = "_" /\ s[i + 1] = "_")

RECURSIVE NatOf(_)
NatOf(s) ==
  IF s = <<>> THEN 0
  ELSE IF s[Len(s)] = "_" THEN NatOf(SubSeq(s, 1, Len(s) - 1))
  ELSE 10 * NatOf(SubSeq(s, 1, Len(s) - 1)) + DigitVal(s[Len(s)])

NumDigits(s) == Cardinality({i \in 1..Len(s) : s[i] \in Digits})

\* [sign] digitpart of an exponent; <<ok, value>>.
ParseExponent(x) ==
  LET signed == x # <<>> /\ x[1] \in {"+", "-"}
      ds == IF signed THEN Tail(x) ELSE x
  IN  IF IsDigitPart(ds)
      THEN <<TRUE, IF signed /\ x[1] = "-" THEN 0 - NatOf(ds) ELSE NatOf(ds)>>
      ELSE <<FALSE, 0>>

\* The unsigned number after the sign: digitpart ["." [digitpart]] [exponent]
\* or "." digitpart [exponent].
ParseNumber(neg, b) ==
  LET e == IndexOf(b, {"e", "E"})
      m == IF e = 0 THEN b ELSE SubSeq(b, 1, e - 1)
      x == IF e = 0 THEN <<TRUE, 0>> ELSE ParseExponent(SubSeq(b, e + 1, Len(b)))
      p == IndexOf(m, {"."})
      ip == IF p = 0 THEN m ELSE SubSeq(m, 1, p - 1)
      fp == IF p = 0 THEN <<>> ELSE SubSeq(m, p + 1, Len(m))
      ok == /\ x[1]
            /\ ip = <<>> \/ IsDigitPart(ip)
            /\ fp = <<>> \/ IsDigitPart(fp)
            /\ ip # <<>> \/ fp # <<>>
  IN  IF ok
      THEN Finite(neg, NatOf(ip \o fp), x[2] - NumDigits(fp))
      ELSE ValueError

\* float(s) for a str s.
ParseFloat(s) ==
  LET t == Strip(s)
      signed == t # <<>> /\ t[1] \in {"+", "-"}
      neg == signed /\ t[1] = "-"
      b == IF signed THEN Tail(t) ELSE t
      w == LowerStr(b)
  IN  IF w \in {<<"i", "n", "f">>, <<"i", "n", "f", "i", "n", "i", "t", "y">>}
      THEN Inf(neg)
      ELSE IF w = <<"n", "a", "n">> THEN NaN
      ELSE ParseNumber(neg, b)

\* m > n * 10^k for naturals m, n, k, without computing 10^k.
RECURSIVE GreaterScaled(_, _, _, _)
GreaterScaled(m, rest, n, k) ==
  IF k = 0 THEN m > n \/ (m = n /\ rest)
  ELSE IF m = 0 THEN FALSE
  ELSE GreaterScaled(m \div 10, rest \/ m % 10 # 0, n, k - 1)

\* m * 10^k > n for naturals m, n, k.
RECURSIVE ScaledGreater(_, _, _)
ScaledGreater(m, k, n) ==
  IF m > n THEN TRUE
  ELSE IF k = 0 \/ m = 0 THEN FALSE
  ELSE ScaledGreater(10 * m, k - 1, n)

\* v > n for a float v that is no ValueError and a natural n.
FloatGreater(v, n) ==
  CASE v.kind = "nan" -> FALSE
    [] v.kind = "inf" -> ~v.neg
    [] OTHER ->
         /\ ~v.neg
         /\ IF v.exp >= 0
            THEN ScaledGreater(v.mant, v.exp, n)
            ELSE GreaterScaled(v.mant, FALSE, n, 0 - v.exp)


(***************************************************************************)
(* str(): int and float to text.                                           *)
(***************************************************************************)
RECURSIVE StrNat(_)
StrNat(n) ==
  IF n < 10 THEN <<DigitChars[n + 1]>>
  ELSE StrNat(n \div 10) \o <<DigitChars[(n % 10) + 1]>>

\* str(n) for an int n.
StrInt(n) == IF n < 0 THEN <<"-">> \o StrNat(0 - n) ELSE StrNat(n)

\* str(x) for a float x >= 0 given in hundredths: the shortest text that reads
\* back as x, with at least one digit after the point.
StrFloat(h) ==
  StrNat(h \div 100) \o <<".">> \o
    (IF h % 100 = 0 THEN <<"0">>
     ELSE IF h % 10 = 0 THEN StrNat((h % 100) \div 10)
     ELSE <<DigitChars[((h % 100) \div 10) + 1], DigitChars[(h % 10) + 1]>>)

\* f"{x}" for an Optional[str] x.
Format(x) == IF x = None THEN <<"N", "o", "n", "e">> ELSE x

\* bool(x) for an Optional[str] x.
Truthy(x) == x # None /\ x # <<>>

\* d.get(k, default) for a dict d.
Get(d, k, default) == IF k \in DOMAIN d THEN d[k] ELSE default

(***************************************************************************)
(* Literals of the source.                                                 *)
(***************************************************************************)
SK == <<"S", "K">>

CZ == <<"C", "Z">>

PL == <<"P", "L">>

DE == <<"D", "E">>

FREE == <<"F", "R", "E", "E">>

NA == <<"N", "/", "A">>

aliexpress == <<"a", "l", "i", "e", "x", "p", "r", "e", "s", "s">>

temu == <<"t", "e", "m", "u">>

gr_dev_key == "gr_dev_key"

ProductUrlBase == <<"h", "t", "t", "p", "s", ":", "/", "/", "g", "l", "o", "b", "a", "l", "r", "a", "d", "a", "r", ".", "e", "u", "/", "p", "r", "o", "d", "u", "c", "t", "/">>

FreeThreshold == 30

DefaultRate == 399

\* base_rates, in hundredths.
base_rates == [c \in {SK, CZ, PL, DE} |->
  CASE c = SK -> 299 [] c = CZ -> 349 [] c = PL -> 329 [] c = DE -> 499]

(***************************************************************************)
(* POMOCNE FUNKCIE                                                         *)
(***************************************************************************)
\* float(price_str or 0)
PriceOrZero(price_str) ==
  IF Truthy(price_str) THEN ParseFloat(price_str) ELSE Finite(FALSE, 0, 0)

\* Variant: the destination is looked up before the price is compared.
estimate_shipping_lookup_first(price_str, country) ==
  LET price == PriceOrZero(price_str)
  IN  IF price.kind = "ValueError" THEN NA
      ELSE IF country \notin DOMAIN base_rates THEN StrFloat(DefaultRate)
      ELSE IF FloatGreater(price, FreeThreshold) THEN FREE
      ELSE StrFloat(base_rates[country])

\* Variant: float(price_str), without "or 0".
estimate_shipping_no_default(price_str, country) ==
  LET price == IF Truthy(price_str) THEN ParseFloat(price_str) ELSE ValueError
  IN  IF price.kind = "ValueError" THEN NA
      ELSE IF FloatGreater(price, FreeThreshold) THEN FREE
      ELSE StrFloat(Get(base_rates, country, DefaultRate))

estimate_shipping(price_str, country) ==
  LET price == PriceOrZero(price_str)
  IN  IF price.kind = "ValueError" THEN NA
      ELSE IF FloatGreater(price, FreeThreshold) THEN FREE
      ELSE StrFloat(Get(base_rates, country, DefaultRate))

(***************************************************************************)
(* State.  API_KEY is the module global read from the environment at       *)
(* import; clock is the system clock in ticks (TicksPerSecond to a         *)
(* second); conn holds, per connection, the request being served, the      *)
(* clock reads its handler took and the response sent; est is one direct   *)
(* call of estimate_shipping: its arguments and what it returned.          *)
(***************************************************************************)
VARIABLES API_KEY, clock, conn, est

vars == <<API_KEY, clock, conn, est>>

Conns == {"c1", "c2"}

FirstTick == 9 * TicksPerSecond

LastTick == FirstTick + MaxTicks

\* int(datetime.timestamp()) of a clock read: whole seconds.
Timestamp(t) == t \div TicksPerSecond

(***************************************************************************)
(* AUTH                                                                    *)
(***************************************************************************)
\* Variant: only a missing or empty header is rejected.
verify_key_presence(x_api_key) ==
  IF x_api_key = "" /\ API_KEY # gr_dev_key
  THEN [raised |-> TRUE, status_code |-> 401, detail |-> "Neplatny API kluc"]
  ELSE [raised |-> FALSE, status_code |-> 200, detail |-> x_api_key]

\* Variant: no exemption for the default key.
verify_key_strict(x_api_key) ==
  IF x_api_key # API_KEY
  THEN [raised |-> TRUE, status_code |-> 401, detail |-> "Neplatny API kluc"]
  ELSE [raised |-> FALSE, status_code |-> 200, detail |-> x_api_key]

verify_key(x_api_key) ==
  IF x_api_key # API_KEY /\ API_KEY # gr_dev_key
  THEN [raised |-> TRUE, status_code |-> 401, detail |-> "Neplatny API kluc"]
  ELSE [raised |-> FALSE, status_code |-> 200, detail |-> x_api_key]

(***************************************************************************)
(* ENDPOINTS: the value each handler returns.  Message literals are        *)
(* written without diacritics and emoji; receivedAt and publishedAt hold   *)
(* the clock read itself, whose isoformat() text no handler looks at.      *)
(***************************************************************************)
root == [status |-> "Global Radar API is running"]

\* Variant: the target country's estimate is computed, not looked up.
scan_product_direct(data, now) ==
  LET shipping_prices == [c \in {SK, CZ, PL, DE} |-> estimate_shipping(data.price, c)]
  IN  [success |-> TRUE,
       productId |-> data.productId,
       receivedAt |-> now,
       shipping |-> IF Truthy(data.targetCountry)
                    THEN estimate_shipping(data.price, data.targetCountry)
                    ELSE NA,
       allShipping |-> shipping_prices,
       specs |-> data.specs,
       message |-> "Produkt zaznamenany"]

\* now: the handler's datetime.utcnow() read.
scan_product(data, now) ==
  LET shipping_prices == [c \in {SK, CZ, PL, DE} |-> estimate_shipping(data.price, c)]
  IN  [success |-> TRUE,
       productId |-> data.productId,
       receivedAt |-> now,
       shipping |-> IF Truthy(data.targetCountry)
                    THEN Get(shipping_prices, data.targetCountry, NA)
                    ELSE NA,
       allShipping |-> shipping_prices,
       specs |-> data.specs,
       message |-> "Produkt zaznamenany"]

\* Variant: the identifier carries no timestamp.
publish_product_no_timestamp(data, now1, now2) ==
  LET product_id == <<"g", "r", "_">> \o Format(data.shop) \o <<"_">>
                      \o Format(data.productId)
  IN  [success |-> TRUE,
       id |-> product_id,
       url |-> ProductUrlBase \o product_id,
       publishedAt |-> now2,
       message |-> "Publikovane v 4 jazykoch"]

\* now1, now2: the handler's two datetime.utcnow() reads, in order.
publish_product(data, now1, now2) ==
  LET product_id == <<"g", "r", "_">> \o Format(data.shop) \o <<"_">>
                      \o Format(data.productId) \o <<"_">> \o StrInt(Timestamp(now1))
  IN  [success |-> TRUE,
       id |-> product_id,
       url |-> ProductUrlBase \o product_id,
       publishedAt |-> now2,
       message |-> "Publikovane v 4 jazykoch"]

\* Variant: the toggle tests the other literal.
match_image_swapped(request) ==
  LET mock_matches ==
        <<[shop |-> IF request.sourceShop = temu THEN aliexpress ELSE temu,
           title |-> "Podobny produkt (mock)",
           price |-> <<"9", ".", "9", "9">>,
           imageUrl |-> request.imageUrl,
           url |-> "https://www.temu.com/example",
           similarity |-> 92]>>
  IN  [success |-> TRUE, matches |-> mock_matches]

match_image(request) ==
  LET mock_matches ==
        <<[shop |-> IF request.sourceShop = aliexpress THEN temu ELSE aliexpress,
           title |-> "Podobny produkt (mock)",
           price |-> <<"9", ".", "9", "9">>,
           imageUrl |-> request.imageUrl,
           url |-> "https://www.temu.com/example",
           similarity |-> 92]>>
  IN  [success |-> TRUE, matches |-> mock_matches]

\* Variant: the identifiers of the publish responses in hand are kept as drafts.
get_drafts_stored(_key) ==
  LET held(c) == IF conn[c].pc = "responded" /\ conn[c].req.endpoint = "publish"
                    /\ conn[c].resp.status = 200
                 THEN <<conn[c].resp.body.id>> ELSE <<>>
  IN  [drafts |-> held("c1") \o held("c2")]

get_drafts(_key) == [drafts |-> <<>>]

(***************************************************************************)
(* Requests.                                                               *)
(***************************************************************************)
Strings(cs, n) == UNION {[1..k -> cs] : k \in 0..n}

PriceChars == {"0", "1", "3", ".", "-", "e"}

ExtraPrices ==
  {<<"a", "b", "c">>,
   <<"n", "a", "n">>,
   <<"N", "a", "N">>,
   <<"i", "n", "f">>,
   <<"-", "i", "n", "f">>,
   <<"I", "n", "f", "i", "n", "i", "t", "y">>,
   <<" ", "3", "1", " ">>,
   <<"+", "3", "1">>,
   <<"1", "_", "0">>,
   <<"1", "_", "0", "0">>,
   <<"3", "0", ".", "0", "1">>,
   <<"3", "0", ".", "0", "0">>,
   <<"2", "9", ".", "9", "9">>,
   <<"3", "0", ",", "5">>,
   <<"2", "5">>,
   <<"5", "0">>,
   <<"3", "e", "-", "1">>,
   <<"3", "0", "1", "e", "-", "1">>,
   <<"1", "e", "9", "9">>,
   <<" ">>}

Prices == Strings(PriceChars, MaxPriceLen) \cup ExtraPrices \cup {None}

Targets == {None, <<>>, SK, CZ, PL, DE, <<"U", "S">>, <<"s", "k">>}

Shops == {temu, <<"a">>, <<"a", "_", "b">>}

ProductIds == {<<"1", "2", "3">>, <<"c">>, <<"b", "_", "c">>, <<>>, None}

SourceShops == {aliexpress, temu, <<"s", "h", "e", "i", "n">>}

ImageUrls == {<<"u">>}

\* What the X-API-Key header can carry; "" is also the value of a missing header.
Credentials == {"", "k1"}

\* What GLOBAL_RADAR_API_KEY can configure; unset gives gr_dev_key.
Keys == {gr_dev_key, "k1", ""}

\* The fields of ProductData the handlers read (the others are never used).
ProductData(shops, ids, prices, targets) ==
  [shop : shops, productId : ids, price : prices, targetCountry : targets, specs : {<<>>}]

ImageMatchRequest == [imageUrl : ImageUrls, sourceShop : SourceShops]

NoBody == [none |-> TRUE]

NoData == {NoBody}

Request(endpoint, dataset) ==
  [endpoint : {endpoint}, x_api_key : Credentials, data : dataset]

OtherRequests ==
  Request("publish", ProductData(Shops, ProductIds, {<<"2", "5">>}, {None}))
    \cup Request("match-image", ImageMatchRequest)
    \cup Request("drafts", NoData)
    \cup Request("root", NoData)

\* Every price against every target country, one connection at a time.
Requests ==
  Request("scan", ProductData({temu}, {<<"1", "2", "3">>}, Prices, Targets))
    \cup OtherRequests

\* The scenarios of the scan endpoint, for runs with two connections.
SampleRequests ==
  Request("scan", ProductData({temu}, {<<"1", "2", "3">>},
                              {<<"2", "5">>, <<"5", "0">>, <<"a", "b", "c">>}, {DE, None}))
    \cup OtherRequests

Gated == {"scan", "publish", "match-image", "drafts"}

(***************************************************************************)
(* The HTTP layer.                                                         *)
(***************************************************************************)
NoResponse == [status |-> 0, body |-> NoBody]

Idle == [pc |-> "idle", req |-> [endpoint |-> "", x_api_key |-> "", data |-> NoBody],
         reads |-> <<>>, resp |-> NoResponse]

Ok(body) == [status |-> 200, body |-> body]

Respond(c, resp, reads) ==
  conn' = [conn EXCEPT ![c].pc = "responded", ![c].resp = resp, ![c].reads = reads]

NoReturn == <<>>

NoCall == [price_str |-> None, country |-> None, ret |-> NoReturn]

Init ==
  /\ API_KEY \in Keys
  /\ clock = FirstTick
  /\ conn = [c \in Conns |-> Idle]
  /\ est = NoCall

\* Time passes.
Tick ==
  /\ clock < LastTick
  /\ clock' = clock + 1
  /\ UNCHANGED <<API_KEY, conn, est>>

\* A request of set rs arrives on a connection that is serving none.
Receive(c, rs) ==
  /\ conn[c].pc = "idle"
  /\ \E r \in rs :
       conn' = [conn EXCEPT ![c] = [pc |-> "pending", req |-> r,
                                    reads |-> <<>>, resp |-> NoResponse]]
  /\ UNCHANGED <<API_KEY, clock, est>>

\* Depends(verify_key): runs before the handler; an HTTPException ends the request.
VerifyKey(c) ==
  /\ conn[c].pc = "pending"
  /\ conn[c].req.endpoint \in Gated
  /\ LET r == verify_key(conn[c].req.x_api_key)
     IN  IF r.raised
         THEN Respond(c, [status |-> r.status_code, body |-> [detail |-> r.detail]], <<>>)
         ELSE conn' = [conn EXCEPT ![c].pc = "authorized"]
  /\ UNCHANGED <<API_KEY, clock, est>>

Root(c) ==
  /\ conn[c].pc = "pending"
  /\ conn[c].req.endpoint = "root"
  /\ Respond(c, Ok(root), <<>>)
  /\ UNCHANGED <<API_KEY, clock, est>>

ScanProduct(c) ==
  /\ conn[c].pc = "authorized"
  /\ conn[c].req.endpoint = "scan"
  /\ Respond(c, Ok(scan_product(conn[c].req.data, clock)), <<clock>>)
  /\ UNCHANGED <<API_KEY, clock, est>>

\* The clock may advance between the handler's two reads.
PublishProduct(c) ==
  /\ conn[c].pc = "authorized"
  /\ conn[c].req.endpoint = "publish"
  /\ \E now2 \in {t \in {clock, clock + 1} : t <= LastTick} :
       /\ Respond(c, Ok(publish_product(conn[c].req.data, clock, now2)), <<clock, now2>>)
       /\ clock' = now2
  /\ UNCHANGED <<API_KEY, est>>

MatchImage(c) ==
  /\ conn[c].pc = "authorized"
  /\ conn[c].req.endpoint = "match-image"
  /\ Respond(c, Ok(match_image(conn[c].req.data)), <<>>)
  /\ UNCHANGED <<API_KEY, clock, est>>

GetDrafts(c) ==
  /\ conn[c].pc = "authorized"
  /\ conn[c].req.endpoint = "drafts"
  /\ Respond(c, Ok(get_drafts(conn[c].req.x_api_key)), <<>>)
  /\ UNCHANGED <<API_KEY, clock, est>>

\* The response has been sent; the connection can take the next request.
Close(c) ==
  /\ conn[c].pc = "responded"
  /\ conn' = [conn EXCEPT ![c] = Idle]
  /\ UNCHANGED <<API_KEY, clock, est>>

Serve(c) ==
  \/ VerifyKey(c)
  \/ Root(c)
  \/ ScanProduct(c)
  \/ PublishProduct(c)
  \/ MatchImage(c)
  \/ GetDrafts(c)
  \/ Close(c)

\* One connection, every request.
Next ==
  \/ Tick
  \/ Receive("c1", Requests)
  \/ Serve("c1")

Spec == Init /\ [][Next]_vars

\* Two connections served concurrently, the sample requests.
NextPair ==
  \/ Tick
  \/ \E c \in Conns : Receive(c, SampleRequests)
  \/ \E c \in Conns : Serve(c)

SpecPair == Init /\ [][NextPair]_vars

(***************************************************************************)
(* estimate_shipping on its own: the arguments are drawn at the start,     *)
(* the function is called directly, and a scan request carrying the same   *)
(* price and target country is served.                                     *)
(***************************************************************************)
InitEstimate ==
  /\ API_KEY \in Keys
  /\ clock = FirstTick
  /\ conn = [c \in Conns |-> Idle]
  /\ est \in [price_str : Prices, country : Targets, ret : {NoReturn}]

Estimate ==
  /\ est.ret = NoReturn
  /\ est' = [est EXCEPT !.ret = estimate_shipping(est.price_str, est.country)]
  /\ UNCHANGED <<API_KEY, clock, conn>>

NextEstimate ==
  \/ Estimate
  \/ Receive("c1", Request("scan", ProductData({temu}, {<<"1", "2", "3">>},
                                               {est.price_str}, {est.country})))
  \/ VerifyKey("c1")
  \/ ScanProduct("c1")

SpecEstimate == InitEstimate /\ [][NextEstimate]_vars

(***************************************************************************)
(* Properties.                                                             *)
(***************************************************************************)
KnownCodes == {SK, CZ, PL, DE}

\* The connection holds the response of an accepted request to endpoint e.
Accepted(c, e) ==
  /\ conn[c].pc = "responded"
  /\ conn[c].req.endpoint = e
  /\ conn[c].resp.status = 200

Returned == est.ret # NoReturn

\* The price text denotes a number greater than 30.
Above30(p) ==
  /\ Truthy(p)
  /\ ParseFloat(p).kind \in {"finite", "inf"}
  /\ FloatGreater(ParseFloat(p), 30)

\* The price is absent or empty, or its text denotes a number at most 30.
AtMost30(p) ==
  \/ ~Truthy(p)
  \/ /\ ParseFloat(p).kind \in {"finite", "inf"}
     /\ ~FloatGreater(ParseFloat(p), 30)

\* The price text denotes no number: float() rejects it or reads it as NaN.
NonNumeric(p) == Truthy(p) /\ ParseFloat(p).kind \in {"ValueError", "nan"}

FlatRate(country) ==
  CASE country = SK -> <<"2", ".", "9", "9">>
    [] country = CZ -> <<"3", ".", "4", "9">>
    [] country = PL -> <<"3", ".", "2", "9">>
    [] country = DE -> <<"4", ".", "9", "9">>
    [] OTHER -> <<"3", ".", "9", "9">>

\* C1: a price that parses to a number greater than 30 gives "FREE" for every
\* destination code, known, unknown or absent.
C1_FreeAbove30 == Returned /\ Above30(est.price_str) => est.ret = FREE

C1_Witness ==
  /\ Returned
  /\ Above30(est.price_str)
  /\ est.country \notin KnownCodes
  /\ est.ret = FREE

\* C2: a price that parses to a number at most 30, or is empty or absent, gives
\* the destination's flat rate as text, 3.99 for a destination outside the table.
C2_FlatRateAtMost30 == Returned /\ AtMost30(est.price_str) => est.ret = FlatRate(est.country)

C2_Witness ==
  /\ Returned
  /\ est.price_str = <<"3", "0">>
  /\ est.country = <<"U", "S">>
  /\ est.ret = <<"3", ".", "9", "9">>

\* C3: a price text that denotes no number gives "N/A" for every destination,
\* and an accepted scan request carrying it succeeds with four "N/A" entries.
C3_NonNumericGivesNA ==
  /\ Returned /\ NonNumeric(est.price_str) => est.ret = NA
  /\ \A c \in Conns :
       Accepted(c, "scan") /\ NonNumeric(conn[c].req.data.price) =>
         /\ conn[c].resp.body.success
         /\ \A k \in KnownCodes : conn[c].resp.body.allShipping[k] = NA

\* C4: an accepted scan returns allShipping over exactly SK, CZ, PL, DE, each the
\* estimate for that code, and shipping is allShipping[targetCountry] for one of
\* the four codes and "N/A" for any other, empty or absent target country.
C4_ScanShipping ==
  \A c \in Conns :
    Accepted(c, "scan") =>
      LET data == conn[c].req.data
          body == conn[c].resp.body
      IN  /\ DOMAIN body.allShipping = KnownCodes
          /\ \A k \in KnownCodes : body.allShipping[k] = estimate_shipping(data.price, k)
          /\ body.shipping = IF data.targetCountry \in KnownCodes
                             THEN body.allShipping[data.targetCountry]
                             ELSE NA

C4_Witness ==
  \E c \in Conns :
    /\ Accepted(c, "scan")
    /\ Above30(conn[c].req.data.price)
    /\ conn[c].req.data.targetCountry = <<"U", "S">>
    /\ conn[c].resp.body.shipping = NA
    /\ conn[c].resp.body.allShipping[SK] = FREE

\* C6: with a configured secret other than the default, a gated request whose
\* credential differs from the secret never reaches its handler and is answered
\* 401 with nothing but the error detail; one whose credential equals it is accepted.
C6_FailsClosed ==
  API_KEY # "gr_dev_key" =>
    \A c \in Conns :
      conn[c].req.endpoint \in Gated =>
        IF conn[c].req.x_api_key # API_KEY
        THEN /\ conn[c].pc # "authorized"
             /\ conn[c].pc = "responded" =>
                  /\ conn[c].resp.status = 401
                  /\ DOMAIN conn[c].resp.body = {"detail"}
        ELSE conn[c].pc = "responded" => conn[c].resp.status = 200

C6_Witness ==
  /\ API_KEY = ""
  /\ conn["c1"].pc = "responded"
  /\ conn["c1"].req.endpoint = "scan"
  /\ conn["c1"].req.x_api_key = "k1"
  /\ conn["c1"].resp.status = 401

\* C7: with the default secret no request is answered 401: every credential,
\* the empty one included, passes the check on every gated endpoint.
C7_DefaultKeyOpen ==
  API_KEY = "gr_dev_key" =>
    \A c \in Conns :
      /\ conn[c].resp.status # 401
      /\ conn[c].req.endpoint \in Gated /\ conn[c].pc = "responded" =>
           conn[c].resp.status = 200

C7_Witness ==
  /\ API_KEY = "gr_dev_key"
  /\ Accepted("c1", "drafts")
  /\ conn["c1"].req.x_api_key = ""

\* C8: an accepted match-image request returns one match whose shop is "temu" for
\* source shop "aliexpress" and "aliexpress" for any other, the other fields fixed.
C8_MatchToggle ==
  \A c \in Conns :
    Accepted(c, "match-image") =>
      LET body == conn[c].resp.body
          m == body.matches[1]
      IN  /\ body.success
          /\ Len(body.matches) = 1
          /\ m.shop = IF conn[c].req.data.sourceShop
                          = <<"a", "l", "i", "e", "x", "p", "r", "e", "s", "s">>
                      THEN <<"t", "e", "m", "u">>
                      ELSE <<"a", "l", "i", "e", "x", "p", "r", "e", "s", "s">>
          /\ m.title = "Podobny produkt (mock)"
          /\ m.price = <<"9", ".", "9", "9">>
          /\ m.url = "https://www.temu.com/example"
          /\ m.similarity = 92

C8_Witness ==
  \E c \in Conns :
    /\ Accepted(c, "match-image")
    /\ conn[c].req.data.sourceShop = temu
    /\ conn[c].resp.body.matches[1].shop = aliexpress

\* The whole second of the clock read a publish response took its identifier from.
IdSecond(c) == conn[c].reads[1] \div TicksPerSecond

\* C5: two accepted publish calls with the same shop and productId return the
\* same id when their clock reads fall in the same whole second and different ids
\* otherwise; every id is "gr_", shop, productId and the second joined by "_", and
\* the url is the fixed base followed by the id.
C5_PublishId ==
  /\ \A c \in Conns :
       Accepted(c, "publish") =>
         LET data == conn[c].req.data
             body == conn[c].resp.body
         IN  /\ body.id = <<"g", "r", "_">> \o Format(data.shop) \o <<"_">>
                            \o Format(data.productId) \o <<"_">> \o StrInt(IdSecond(c))
             /\ body.url = ProductUrlBase \o body.id
  /\ \A c, d \in Conns :
       /\ Accepted(c, "publish")
       /\ Accepted(d, "publish")
       /\ conn[c].req.data.shop = conn[d].req.data.shop
       /\ conn[c].req.data.productId = conn[d].req.data.productId
       => (IdSecond(c) = IdSecond(d)) = (conn[c].resp.body.id = conn[d].resp.body.id)

C5_Witness ==
  /\ Accepted("c1", "publish")
  /\ Accepted("c2", "publish")
  /\ conn["c1"].req.data.shop = temu
  /\ conn["c2"].req.data.shop = temu
  /\ conn["c1"].req.data.productId = <<"1", "2", "3">>
  /\ conn["c2"].req.data.productId = <<"1", "2", "3">>
  /\ IdSecond("c1") # IdSecond("c2")
  /\ conn["c1"].resp.body.id # conn["c2"].resp.body.id

\* C9: an accepted drafts request returns an empty collection whatever was
\* served before or is served beside it, and two requests with the same input and
\* the same clock reads get the same response.
C9_Stateless ==
  /\ \A c \in Conns : Accepted(c, "drafts") => conn[c].resp.body.drafts = <<>>
  /\ \A c, d \in Conns :
       /\ conn[c].pc = "responded"
       /\ conn[d].pc = "responded"
       /\ conn[c].req = conn[d].req
       /\ conn[c].reads = conn[d].reads
       => conn[c].resp = conn[d].resp

C9_Witness ==
  /\ Accepted("c1", "publish")
  /\ Accepted("c2", "drafts")
  /\ conn["c2"].resp.body.drafts = <<>>

\* C10: two accepted publish calls in the same whole second with different
\* (shop, productId) pairs return different ids.
C10_IdInjective ==
  \A c, d \in Conns :
    /\ Accepted(c, "publish")
    /\ Accepted(d, "publish")
    /\ IdSecond(c) = IdSecond(d)
    /\ <<conn[c].req.data.shop, conn[c].req.data.productId>>
         # <<conn[d].req.data.shop, conn[d].req.data.productId>>
    => conn[c].resp.body.id # conn[d].resp.body.id

=============================================================================
